---- MODULE Spec2Model ----
(***************************************************************************)
(* objcurses: the orbit camera (entities/view/camera.h) and the host       *)
(* program (main.cpp): command line, startup and the render loop.          *)
(*                                                                         *)
(* Numbers.  The program computes in float; the model computes exactly on  *)
(* fixed grids, one per physical quantity:                                 *)
(*   degrees   in tenths of a degree        (5.0 deg   = 50)               *)
(*   radians   in units of pi/360           (pi        = 360)              *)
(*   zoom      in tenths                    (0.10 x    = 1)                *)
(*   seconds   in ticks of 1/60 s           (1/60 s    = 1)                *)
(*   clock     in ticks since boot; where the program adds a float to the  *)
(*             clock the model rounds the clock to a float (float32)       *)
(*   logical   in hundredths                (2.0       = 200)              *)
(* Every degree value used is a multiple of 0.5 deg, so deg2rad is exact.  *)
(***************************************************************************)
EXTENDS Integers, Sequences, FiniteSets, TLC

VARIABLES
    pc,             \* position of the running code
    argv,           \* the command line, argv[1..argc-1]
    i,              \* parse_args: loop index into argv
    a,              \* parse_args: Args a / main: const Args args
    exit_code,      \* process exit status, -1 while running
    obj,            \* Object obj: load result and transforms applied so far
    curses,         \* terminal mode: "off", "on" (initscr), "ended" (endwin)
    stdscr,         \* terminal size as getmaxyx reports it: <<rows, cols>>
    g_hud_pair,     \* static int g_hud_pair
    buf,            \* Buffer buf
    cam,            \* Camera cam
    hud,            \* bool hud
    rotate,         \* bool rotate
    needs_redraw,   \* bool needs_redraw
    elapsed,        \* SteadyClock::now() - last, in ticks
    dt,             \* float dt of the current iteration
    ch,             \* int ch of the current iteration
    frame,          \* number of loop iterations started
    renders,        \* number of Renderer::render calls made
    win,            \* the curses window: what printw and render_hud wrote
    screen,         \* what the terminal shows: the window at the last refresh
    calls,          \* camera harness: the mutator calls made, oldest first
    t0,             \* const auto t0: the steady clock when the process started
    now,            \* auto now: the steady clock at the top of the iteration
    work,           \* time the last finished iteration ran before sleep_until
    file_materials, \* number of materials the input file defines
    palette         \* what init_colors registered with curses

vars == <<pc, argv, i, a, exit_code, obj, curses, stdscr, g_hud_pair, buf, cam,
          hud, rotate, needs_redraw, elapsed, dt, ch, frame, renders,
          win, screen, calls, t0, now, work, file_materials, palette>>

----------------------------------------------------------------------------
(* config.h *)

CHAR_ASPECT_RATIO == 2
ANGLE_STEP == 50
ZOOM_START == 10
ZOOM_STEP == 1
ZOOM_MIN == 1
ZOOM_MAX == 50
ALTITUDE_START == 0
AZIMUTH_START == 0
FRAME_DURATION == 1
ANIMATION_STEP_ALTITUDE == 300
ANIMATION_STEP_AZIMUTH == 300

----------------------------------------------------------------------------
(* utils/mathematics.h, utils/algorithms.h *)

PI == 360

Min(x, y) == IF x < y THEN x ELSE y
Max(x, y) == IF x > y THEN x ELSE y

\* std::clamp(v, lo, hi)
clamp(v, lo, hi) == IF v < lo THEN lo ELSE IF hi < v THEN hi ELSE v

\* degrees (tenths) to radians (units of pi/360): d * PI / 180
deg2rad(d) == (d * PI) \div 1800

\* the angle brought into the canonical range (-PI, PI]
rad_norm(r) ==
    LET m == r % (2 * PI)
    IN  IF m > PI THEN m - 2 * PI ELSE m

----------------------------------------------------------------------------
(* entities/view/camera.h *)

\* Camera()
Camera0 ==
    [azimuth |-> 0, altitude |-> 0, zoom |-> clamp(10, ZOOM_MIN, ZOOM_MAX)]

Camera1_unclamped(zoom) == [azimuth |-> 0, altitude |-> 0, zoom |-> zoom]

\* explicit Camera(float zoom)
Camera1(zoom) ==
    [azimuth |-> 0, altitude |-> 0, zoom |-> clamp(zoom, ZOOM_MIN, ZOOM_MAX)]

\* Camera(float azimuth, float altitude, float zoom)
Camera3(azimuth, altitude, zoom) ==
    [azimuth  |-> rad_norm(azimuth),
     altitude |-> clamp(altitude, -PI \div 2, PI \div 2),
     zoom     |-> clamp(zoom, ZOOM_MIN, ZOOM_MAX)]

rotate_left(c, degree) ==
    [c EXCEPT !.azimuth = rad_norm(c.azimuth + deg2rad(degree))]

rotate_right_adds(c, degree) ==
    [c EXCEPT !.azimuth = rad_norm(c.azimuth + deg2rad(degree))]

rotate_right(c, degree) ==
    [c EXCEPT !.azimuth = rad_norm(c.azimuth - deg2rad(degree))]

rotate_up(c, degree) ==
    [c EXCEPT !.altitude = rad_norm(c.altitude - deg2rad(degree))]

rotate_down(c, degree) ==
    [c EXCEPT !.altitude = rad_norm(c.altitude - deg2rad(degree))]

zoom_in(c, step) ==
    [c EXCEPT !.zoom = Min(c.zoom + step, ZOOM_MAX)]

zoom_out(c, step) ==
    [c EXCEPT !.zoom = Max(c.zoom - step, ZOOM_MIN)]

\* the mutator named op applied to c
Mutate(op, c, x) ==
    CASE op = "rotate_left"  -> rotate_left(c, x)
      [] op = "rotate_right" -> rotate_right(c, x)
      [] op = "rotate_up"    -> rotate_up(c, x)
      [] op = "rotate_down"  -> rotate_down(c, x)
      [] op = "zoom_in"      -> zoom_in(c, x)
      [] op = "zoom_out"     -> zoom_out(c, x)

----------------------------------------------------------------------------
(* main.cpp: the command line *)

\* The words a command line is made of.  "m.obj" is any word that is neither
\* a number nor starts with '-'; "270" and "-7" are numbers.
Tokens ==
    {"-h", "-v", "-c", "dark", "light", "transparent", "-l", "-az", "-al",
     "--zoom", "--altitude", "--azimuth", "--flip",
     "--invert-x", "--invert-y", "--invert-z", "--bogus", "m.obj", "270", "-7"}

\* argv[i][0] == '-'
StartsWithDash(tok) ==
    tok \in {"-h", "--help", "-v", "--version", "-c", "--color", "-l", "--light",
             "-az", "-al", "-z", "--zoom", "--altitude", "--azimuth", "--flip",
             "--invert-x", "--invert-y", "--invert-z", "--bogus", "-7"}

\* safe_stof: the number a word spells, in tenths, or no value
Numbers == {"270", "-7"}
safe_stof(tok) ==
    CASE tok = "270" -> <<2700>>
      [] tok = "-7"  -> <<-70>>
      [] OTHER       -> <<>>

Exit(code) == [exit |-> code]
Go(args, next) == [exit |-> -1, a |-> args, i |-> next]

\* a value-taking option at argv[k]: if (++i == argc) exit(1); safe_stof(argv[i])
TakeValue_unchecked(args, av, k, field) ==
    IF k + 1 > Len(av) THEN Exit(1)
    ELSE IF safe_stof(av[k + 1]) = <<>>
         THEN Go([args EXCEPT ![field] = 0], k + 2)
         ELSE Go([args EXCEPT ![field] = safe_stof(av[k + 1])[1]], k + 2)

TakeValue(args, av, k, field) ==
    IF k + 1 > Len(av) THEN Exit(1)
    ELSE IF safe_stof(av[k + 1]) = <<>> THEN Exit(1)
    ELSE Go([args EXCEPT ![field] = safe_stof(av[k + 1])[1]], k + 2)

\* -az / -al at argv[k]: the speed is taken only if the next word is a number
TakeSpeed(args, av, k, flag, field) ==
    LET on == [args EXCEPT ![flag] = TRUE]
    IN  IF k + 1 <= Len(av) /\ ~StartsWithDash(av[k + 1]) /\ safe_stof(av[k + 1]) # <<>>
        THEN Go([on EXCEPT ![field] = safe_stof(av[k + 1])[1]], k + 2)
        ELSE Go(on, k + 1)

\* -c / --color at argv[k]: the theme is taken only if the next word names one
TakeTheme(args, av, k) ==
    LET on == [args EXCEPT !.color_support = TRUE]
    IN  IF k + 1 <= Len(av) /\ ~StartsWithDash(av[k + 1])
        THEN CASE av[k + 1] = "dark"        -> Go([on EXCEPT !.theme = "Dark"], k + 2)
               [] av[k + 1] = "light"       -> Go([on EXCEPT !.theme = "Light"], k + 2)
               [] av[k + 1] = "transparent" -> Go([on EXCEPT !.theme = "Transparent"], k + 2)
               [] OTHER                     -> Go(on, k + 1)
        ELSE Go(on, k + 1)

\* one iteration of the for loop of parse_args, on argv[k]
parse_arg(args, av, k) ==
    LET arg == av[k]
    IN  CASE arg \in {"-h", "--help"}    -> Exit(0)
          [] arg \in {"-v", "--version"} -> Exit(0)
          [] arg \in {"-c", "--color"}   -> TakeTheme(args, av, k)
          [] arg \in {"-l", "--light"}   -> Go([args EXCEPT !.static_light = TRUE], k + 1)
          [] arg = "-az"                 -> TakeSpeed(args, av, k, "animate_azimuth", "speed_azimuth")
          [] arg = "-al"                 -> TakeSpeed(args, av, k, "animate_altitude", "speed_altitude")
          [] arg \in {"-z", "--zoom"}    -> TakeValue(args, av, k, "zoom")
          [] arg = "--altitude"          -> TakeValue(args, av, k, "altitude")
          [] arg = "--azimuth"           -> TakeValue(args, av, k, "azimuth")
          [] arg = "--flip"              -> Go([args EXCEPT !.flip_faces = TRUE], k + 1)
          [] arg = "--invert-x"          -> Go([args EXCEPT !.invert_x = TRUE], k + 1)
          [] arg = "--invert-y"          -> Go([args EXCEPT !.invert_y = TRUE], k + 1)
          [] arg = "--invert-z"          -> Go([args EXCEPT !.invert_z = TRUE], k + 1)
          [] OTHER ->
                IF ~StartsWithDash(arg)
                THEN IF args.input_file # "" THEN Exit(1)
                     ELSE Go([args EXCEPT !.input_file = arg], k + 1)
                ELSE Exit(1)                            \* unknown option

\* struct Args, default member initializers
DefaultArgs ==
    [input_file |-> "", color_support |-> FALSE, theme |-> "Dark",
     static_light |-> FALSE, flip_faces |-> FALSE,
     invert_x |-> FALSE, invert_y |-> FALSE, invert_z |-> FALSE,
     animate_altitude |-> FALSE, animate_azimuth |-> FALSE,
     speed_altitude |-> ANIMATION_STEP_ALTITUDE,
     speed_azimuth |-> ANIMATION_STEP_AZIMUTH,
     zoom |-> ZOOM_START, altitude |-> ALTITUDE_START, azimuth |-> AZIMUTH_START]

----------------------------------------------------------------------------
(* main.cpp: startup *)

MaxArgs == 3
MaxMaterials == 2
MaxFrames == 3
MaxWork == 2

\* terminal sizes <<rows, cols>>
Dims == {<<24, 80>>, <<10, 30>>}

\* the terminal's colours, as the Linux console reports them, and the
\* <curses.h> colour numbers main.cpp uses
COLORS == 8
COLOR_PAIRS == 64
COLOR_BLACK == 0
COLOR_WHITE == 7
BG_DEFAULT == -1

NoObject == [load |-> "none", materials |-> 0, transforms |-> <<>>]
NoBuffer == [w |-> 0, h |-> 0, lx |-> 0, ly |-> 0, state |-> "none", image |-> <<>>]
NoWindow == [image |-> <<>>, hud |-> <<>>]
NoPalette == [colors |-> {}, pairs |-> {}, hud |-> {}, bkgd |-> 0]

RECURSIVE SeqsUpTo(_, _)
SeqsUpTo(S, n) ==
    IF n = 0 THEN {<<>>}
    ELSE LET shorter == SeqsUpTo(S, n - 1)
         IN  shorter \cup {Append(q, t) : q \in {r \in shorter : Len(r) = n - 1}, t \in S}

\* command lines the render loop is explored from
CommandLines ==
    {<<"m.obj">>,
     <<"-az", "m.obj">>,
     <<"-al", "270", "m.obj">>,
     <<"-az", "-al", "m.obj">>,
     <<"-c", "light", "m.obj", "--flip">>,
     <<"--zoom", "270", "--altitude", "270", "m.obj">>,
     <<"--invert-x", "--invert-y", "--invert-z", "-l", "m.obj">>,
     <<"--azimuth", "-7", "-c", "m.obj">>,
     <<"--zoom", "-7", "m.obj">>}

\* the process before main runs: its command line, the steady clock (time
\* since boot) and the input file are given
Start(av, uptime, materials) ==
    /\ pc = "parse_args" /\ argv = av /\ i = 1 /\ a = DefaultArgs /\ exit_code = -1
    /\ obj = NoObject /\ curses = "off" /\ stdscr = <<0, 0>> /\ g_hud_pair = 0
    /\ buf = NoBuffer /\ cam = Camera0 /\ hud = FALSE /\ rotate = FALSE
    /\ needs_redraw = FALSE /\ elapsed = 0 /\ dt = 0 /\ ch = "ERR"
    /\ frame = 0 /\ renders = 0 /\ win = NoWindow /\ screen = NoWindow
    /\ calls = <<>>
    /\ t0 = uptime /\ now = uptime /\ work = 0
    /\ file_materials = materials /\ palette = NoPalette

Init == \E av \in CommandLines, n \in 0..MaxMaterials : Start(av, 0, n)
InitStart == \E av \in SeqsUpTo(Tokens, MaxArgs), n \in 0..MaxMaterials : Start(av, 0, n)

\* std::exit(code) / return code from main
Terminate(code) == pc' = "exit" /\ exit_code' = code

\* parse_args, one pass of the for loop (main.cpp 171-332)
ParseArg ==
    /\ pc = "parse_args" /\ i <= Len(argv)
    /\ LET r == parse_arg(a, argv, i)
       IN  IF r.exit >= 0
           THEN Terminate(r.exit) /\ UNCHANGED <<a, i>>
           ELSE a' = r.a /\ i' = r.i /\ UNCHANGED <<pc, exit_code>>
    /\ UNCHANGED <<argv, obj, curses, stdscr, g_hud_pair, buf, cam, hud, rotate,
                   needs_redraw, elapsed, dt, ch, frame, renders, win, screen, calls, t0, now, work, file_materials, palette>>

\* parse_args after the loop (main.cpp 334-341)
ParseEnd ==
    /\ pc = "parse_args" /\ i > Len(argv)
    /\ IF a.input_file = "" THEN Terminate(1) ELSE pc' = "load" /\ UNCHANGED exit_code
    /\ UNCHANGED <<argv, i, a, obj, curses, stdscr, g_hud_pair, buf, cam, hud, rotate,
                   needs_redraw, elapsed, dt, ch, frame, renders, win, screen, calls, t0, now, work, file_materials, palette>>

LoadObject_ignoring_failure ==
    /\ pc = "load"
    /\ \/ obj' = [obj EXCEPT !.load = "failed"]
       \/ obj' = [obj EXCEPT !.load = "ok", !.materials = file_materials]
    /\ pc' = "transform"
    /\ UNCHANGED <<argv, i, a, exit_code, curses, stdscr, g_hud_pair, buf, cam, hud, rotate,
                   needs_redraw, elapsed, dt, ch, frame, renders, win, screen, calls, t0, now, work, file_materials, palette>>

\* obj.load(...) and the test of its result (main.cpp 396-400); the loader
\* fails, or succeeds and finds the materials of the file
LoadObject ==
    /\ pc = "load"
    /\ \/ obj' = [obj EXCEPT !.load = "failed"] /\ Terminate(1)
       \/ /\ obj' = [obj EXCEPT !.load = "ok", !.materials = file_materials]
          /\ pc' = "transform" /\ UNCHANGED exit_code
    /\ UNCHANGED <<argv, i, a, curses, stdscr, g_hud_pair, buf, cam, hud, rotate,
                   needs_redraw, elapsed, dt, ch, frame, renders, win, screen, calls, t0, now, work, file_materials, palette>>

\* the Object methods main calls, in order (main.cpp 402-420)
transforms(args) ==
    <<"normalize", "scale">>
        \o (IF args.flip_faces THEN <<"flip_faces">> ELSE <<>>)
        \o (IF args.invert_x THEN <<"invert_x">> ELSE <<>>)
        \o (IF args.invert_y THEN <<"invert_y">> ELSE <<>>)
        \o (IF args.invert_z THEN <<"invert_z">> ELSE <<>>)

TransformObject ==
    /\ pc = "transform"
    /\ obj' = [obj EXCEPT !.transforms = @ \o transforms(a)]
    /\ pc' = "init_ncurses"
    /\ UNCHANGED <<argv, i, a, exit_code, curses, stdscr, g_hud_pair, buf, cam, hud, rotate,
                   needs_redraw, elapsed, dt, ch, frame, renders, win, screen, calls, t0, now, work, file_materials, palette>>

\* init_ncurses() (main.cpp 43-50, 423): initscr learns the terminal size
InitNcurses ==
    /\ pc = "init_ncurses"
    /\ curses' = "on"
    /\ stdscr' \in Dims
    /\ pc' = "init_colors"
    /\ UNCHANGED <<argv, i, a, exit_code, obj, g_hud_pair, buf, cam, hud, rotate,
                   needs_redraw, elapsed, dt, ch, frame, renders, win, screen, calls, t0, now, work, file_materials, palette>>

\* init_colors(materials, theme) past its early return (main.cpp 57-104):
\* the HUD pair, and what curses was given: colors, the colour numbers
\* passed to init_color; pairs and hud, the init_pair calls for the
\* materials and for the HUD as <<pair, foreground, background>>; bkgd, the
\* pair passed to bkgd
init_colors(materials, theme) ==
    LET bg    == CASE theme = "Light"       -> COLOR_WHITE
                   [] theme = "Transparent" -> BG_DEFAULT
                   [] OTHER                 -> COLOR_BLACK
        fg    == IF theme = "Light" THEN COLOR_BLACK ELSE COLOR_WHITE
        limit == Min(materials, COLOR_PAIRS - 2)
        hud_pair == limit + 1
    IN  [g_hud_pair |-> hud_pair,
         palette |->
            [colors |-> 1..limit,
             pairs  |-> {<<pair, pair, bg>> : pair \in 1..limit},
             hud    |-> IF hud_pair < COLOR_PAIRS THEN {<<hud_pair, fg, bg>>} ELSE {},
             bkgd   |-> hud_pair]]

\* if (args.color_support) init_colors(...) (main.cpp 425-427); the terminal
\* has colors and can change them, or init_colors returns at once
InitColors ==
    /\ pc = "init_colors"
    /\ IF a.color_support
       THEN \/ LET r == init_colors(obj.materials, a.theme)
                IN  g_hud_pair' = r.g_hud_pair /\ palette' = r.palette
            \/ UNCHANGED <<g_hud_pair, palette>>   \* !has_colors() || !can_change_color()
       ELSE UNCHANGED <<g_hud_pair, palette>>
    /\ pc' = "buffer"
    /\ UNCHANGED <<argv, i, a, exit_code, obj, curses, stdscr, buf, cam, hud, rotate,
                   needs_redraw, elapsed, dt, ch, frame, renders, win, screen, calls, t0, now, work, file_materials>>

\* logical_y * cols / (rows * CHAR_ASPECT_RATIO), in hundredths
logical_x(rows, cols) == (200 * cols) \div (rows * CHAR_ASPECT_RATIO)

\* Buffer(cols, rows, logical_x, logical_y) from the size getmaxyx reports
NewBuffer(size) ==
    [w |-> size[2], h |-> size[1], lx |-> logical_x(size[1], size[2]), ly |-> 200,
     state |-> "fresh", image |-> <<>>]

\* getmaxyx, Buffer buf(...) (main.cpp 429-438)
MakeBuffer ==
    /\ pc = "buffer"
    /\ buf' = NewBuffer(stdscr)
    /\ pc' = "view"
    /\ UNCHANGED <<argv, i, a, exit_code, obj, curses, stdscr, g_hud_pair, cam, hud, rotate,
                   needs_redraw, elapsed, dt, ch, frame, renders, win, screen, calls, t0, now, work, file_materials, palette>>

\* Camera cam(args.zoom) and the two field assignments (main.cpp 441-447)
InitialView(args) ==
    [Camera1(args.zoom) EXCEPT !.altitude = deg2rad(args.altitude),
                               !.azimuth = deg2rad(args.azimuth)]

\* view, animation and drawing flags (main.cpp 440-454)
MakeView ==
    /\ pc = "view"
    /\ cam' = InitialView(a)
    /\ hud' = FALSE
    /\ rotate' = (a.animate_altitude \/ a.animate_azimuth)
    /\ elapsed' = 0
    /\ needs_redraw' = TRUE
    /\ pc' = "loop"
    /\ UNCHANGED <<argv, i, a, exit_code, obj, curses, stdscr, g_hud_pair, buf,
                   dt, ch, frame, renders, win, screen, calls, t0, now, work, file_materials, palette>>

NextStart ==
    \/ ParseArg
    \/ ParseEnd
    \/ LoadObject
    \/ TransformObject
    \/ InitNcurses
    \/ InitColors
    \/ MakeBuffer
    \/ MakeView

SpecStart == InitStart /\ [][NextStart]_vars

----------------------------------------------------------------------------
(* main.cpp: the render loop *)

\* what getch() can return: nothing, a resize notification, or a key
Keys == {"ERR", "KEY_RESIZE", "q", "Q", "\t", "KEY_LEFT", "KEY_RIGHT", "KEY_UP", "KEY_DOWN",
         "+", "-", "x"}

\* handle_control(ch, cam)
handle_control(key, c) ==
    CASE key \in {"KEY_LEFT", "h", "H", "a", "A"}  -> rotate_left(c, ANGLE_STEP)
      [] key \in {"KEY_RIGHT", "l", "L", "d", "D"} -> rotate_right(c, ANGLE_STEP)
      [] key \in {"KEY_UP", "k", "K", "w", "W"}    -> rotate_up(c, ANGLE_STEP)
      [] key \in {"KEY_DOWN", "j", "J", "s", "S"}  -> rotate_down(c, ANGLE_STEP)
      [] key \in {"+", "=", "i", "I"}              -> zoom_in(c, ZOOM_STEP)
      [] key \in {"-", "o", "O"}                   -> zoom_out(c, ZOOM_STEP)
      [] OTHER                                     -> c

Turn_fixed_step(speed, ticks) == (speed * FRAME_DURATION) \div 60

\* speed (tenths of a degree per second) * dt (ticks of 1/60 s)
Turn(speed, ticks) == (speed * ticks) \div 60

\* the animation step (main.cpp 464-474)
animate(args, c, ticks) ==
    LET c1 == IF args.animate_altitude
              THEN rotate_down(c, Turn(args.speed_altitude, ticks)) ELSE c
    IN  IF args.animate_azimuth
        THEN rotate_left(c1, Turn(args.speed_azimuth, ticks)) ELSE c1

LoopTop_without_redraw ==
    /\ pc = "loop" /\ frame < MaxFrames
    /\ frame' = frame + 1
    /\ now' = now + elapsed
    /\ dt' = elapsed
    /\ elapsed' = 0
    /\ IF rotate
       THEN cam' = animate(a, cam, elapsed) /\ UNCHANGED needs_redraw
       ELSE UNCHANGED <<cam, needs_redraw>>
    /\ pc' = "getch"
    /\ UNCHANGED <<argv, i, a, exit_code, obj, curses, stdscr, g_hud_pair, buf, hud, rotate,
                   ch, renders, win, screen, calls, t0, work, file_materials, palette>>

\* top of the loop: dt, last, fps and the animation step (main.cpp 459-474)
LoopTop ==
    /\ pc = "loop" /\ frame < MaxFrames
    /\ frame' = frame + 1
    /\ now' = now + elapsed
    /\ dt' = elapsed
    /\ elapsed' = 0
    /\ IF rotate
       THEN cam' = animate(a, cam, elapsed) /\ needs_redraw' = TRUE
       ELSE UNCHANGED <<cam, needs_redraw>>
    /\ pc' = "getch"
    /\ UNCHANGED <<argv, i, a, exit_code, obj, curses, stdscr, g_hud_pair, buf, hud, rotate,
                   ch, renders, win, screen, calls, t0, work, file_materials, palette>>

resize_keeping(b, size) == b

\* the buffer after KEY_RESIZE: getmaxyx, lx, buf = Buffer(...) (main.cpp 481-483)
resize(b, size) == NewBuffer(size)

\* getch() and the dispatch on ch (main.cpp 476-500); a resize notification
\* comes with the new terminal size
GetKey ==
    /\ pc = "getch"
    /\ \E key \in Keys :
        /\ ch' = key
        /\ CASE key = "KEY_RESIZE" ->
                  /\ stdscr' \in Dims
                  /\ buf' = resize(buf, stdscr')
                  /\ needs_redraw' = TRUE
                  /\ pc' = "redraw"
                  /\ UNCHANGED <<hud, rotate, cam>>
             [] key \in {"q", "Q"} ->
                  /\ pc' = "endwin"
                  /\ UNCHANGED <<stdscr, buf, needs_redraw, hud, rotate, cam>>
             [] key = "\t" ->
                  /\ hud' = ~hud
                  /\ needs_redraw' = TRUE
                  /\ pc' = "redraw"
                  /\ UNCHANGED <<stdscr, buf, rotate, cam>>
             [] key = "ERR" ->
                  /\ pc' = "redraw"
                  /\ UNCHANGED <<stdscr, buf, needs_redraw, hud, rotate, cam>>
             [] OTHER ->
                  /\ rotate' = FALSE
                  /\ cam' = handle_control(key, cam)
                  /\ needs_redraw' = TRUE
                  /\ pc' = "redraw"
                  /\ UNCHANGED <<stdscr, buf, hud>>
    /\ UNCHANGED <<argv, i, a, exit_code, obj, curses, g_hud_pair, elapsed, dt,
                   frame, renders, win, screen, calls, t0, now, work, file_materials, palette>>

ClearBuffer_skipped ==
    /\ pc = "redraw" /\ needs_redraw
    /\ pc' = "render"
    /\ UNCHANGED <<argv, i, a, exit_code, obj, curses, stdscr, g_hud_pair, buf, cam, hud, rotate,
                   needs_redraw, elapsed, dt, ch, frame, renders, win, screen, calls, t0, now, work, file_materials, palette>>

\* buf.clear() (main.cpp 503-506)
ClearBuffer ==
    /\ pc = "redraw" /\ needs_redraw
    /\ buf' = [buf EXCEPT !.state = "cleared", !.image = <<>>]
    /\ pc' = "render"
    /\ UNCHANGED <<argv, i, a, exit_code, obj, curses, stdscr, g_hud_pair, cam, hud, rotate,
                   needs_redraw, elapsed, dt, ch, frame, renders, win, screen, calls, t0, now, work, file_materials, palette>>

Render_normalizing ==
    /\ pc = "render"
    /\ obj' = [obj EXCEPT !.transforms = Append(@, "normalize")]
    /\ buf' = [buf EXCEPT !.state = "rendered", !.image = <<cam>>]
    /\ renders' = renders + 1
    /\ pc' = "printw"
    /\ UNCHANGED <<argv, i, a, exit_code, curses, stdscr, g_hud_pair, cam, hud, rotate,
                   needs_redraw, elapsed, dt, ch, frame, win, screen, calls, t0, now, work, file_materials, palette>>

\* Renderer::render(buf, obj, cam, light, ...) (main.cpp 509): the buffer
\* holds the picture of the object seen from cam
Render ==
    /\ pc = "render"
    /\ buf' = [buf EXCEPT !.state = "rendered", !.image = <<cam>>]
    /\ renders' = renders + 1
    /\ pc' = "printw"
    /\ UNCHANGED <<argv, i, a, exit_code, obj, curses, stdscr, g_hud_pair, cam, hud, rotate,
                   needs_redraw, elapsed, dt, ch, frame, win, screen, calls, t0, now, work, file_materials, palette>>

\* move(0, 0); buf.printw() (main.cpp 511-512): the buffer goes to the window
EmitBuffer ==
    /\ pc = "printw"
    /\ win' = [image |-> <<[cam |-> buf.image, w |-> buf.w, h |-> buf.h, state |-> buf.state]>>,
               hud |-> <<>>]
    /\ pc' = IF hud THEN "hud" ELSE "refresh"
    /\ UNCHANGED <<argv, i, a, exit_code, obj, curses, stdscr, g_hud_pair, buf, cam, hud, rotate,
                   needs_redraw, elapsed, dt, ch, frame, renders, screen, calls, t0, now, work, file_materials, palette>>

\* float fps = dt > 0.f ? 1.f / dt : 0.f (main.cpp 462), rounded as the HUD
\* prints it
fps(ticks) == IF ticks > 0 THEN 60 \div ticks ELSE 0

\* render_hud(cam, fps) (main.cpp 346-358): the four lines of the HUD, drawn
\* with the pair g_hud_pair when it is not 0
render_hud(c, f) ==
    [fps |-> f, zoom |-> c.zoom, azimuth |-> c.azimuth, altitude |-> c.altitude,
     pair |-> g_hud_pair]

\* render_hud(cam, fps) over the emitted buffer (main.cpp 514-518)
DrawHud ==
    /\ pc = "hud"
    /\ win' = [win EXCEPT !.hud = <<render_hud(cam, fps(dt))>>]
    /\ pc' = "refresh"
    /\ UNCHANGED <<argv, i, a, exit_code, obj, curses, stdscr, g_hud_pair, buf, cam, hud, rotate,
                   needs_redraw, elapsed, dt, ch, frame, renders, screen, calls, t0, now, work, file_materials, palette>>

\* refresh(); needs_redraw = false (main.cpp 520-523)
Refresh ==
    /\ pc = "refresh"
    /\ screen' = win
    /\ needs_redraw' = FALSE
    /\ pc' = "sleep"
    /\ UNCHANGED <<argv, i, a, exit_code, obj, curses, stdscr, g_hud_pair, buf, cam, hud, rotate,
                   elapsed, dt, ch, frame, renders, win, calls, t0, now, work, file_materials, palette>>

UpdateHud_unrefreshed ==
    /\ pc = "redraw" /\ ~needs_redraw /\ hud
    /\ win' = [win EXCEPT !.hud = <<render_hud(cam, fps(dt))>>]
    /\ pc' = "sleep"
    /\ UNCHANGED <<argv, i, a, exit_code, obj, curses, stdscr, g_hud_pair, buf, cam, hud, rotate,
                   needs_redraw, elapsed, dt, ch, frame, renders, screen, calls, t0, now, work, file_materials, palette>>

\* else if (hud): render_hud(cam, fps); refresh() (main.cpp 525-529)
UpdateHud ==
    /\ pc = "redraw" /\ ~needs_redraw /\ hud
    /\ win' = [win EXCEPT !.hud = <<render_hud(cam, fps(dt))>>]
    /\ screen' = win'
    /\ pc' = "sleep"
    /\ UNCHANGED <<argv, i, a, exit_code, obj, curses, stdscr, g_hud_pair, buf, cam, hud, rotate,
                   needs_redraw, elapsed, dt, ch, frame, renders, calls, t0, now, work, file_materials, palette>>

\* A float has a 24-bit significand.  The steady clock counts nanoseconds;
\* the model's tick of 1/60 s is 0.993 * 2^24 ns and is taken as 2^24 ns,
\* so the floats around a clock value of n ticks are ulp(n) ticks apart.
RECURSIVE ulp(_)
ulp(n) == IF n < 2^24 THEN 1 ELSE 2 * ulp(n \div 2)

\* static_cast<float>(n): the nearest float, ties to the even significand
float32(n) ==
    LET u  == ulp(n)
        lo == (n \div u) * u
        r  == n - lo
    IN  IF 2 * r < u THEN lo
        ELSE IF 2 * r > u THEN lo + u
        ELSE IF (lo \div u) % 2 = 0 THEN lo ELSE lo + u

\* now + std::chrono::duration<float>(FRAME_DURATION) (main.cpp 532): the
\* common type of the clock's duration and duration<float> has a float
\* count, so the sum is taken in float
frame_deadline(t) == float32(float32(t) + FRAME_DURATION)

\* std::this_thread::sleep_until(deadline) called when the clock reads
\* clock: the clock when it returns.  The deadline is compared with the
\* clock in float; a deadline that is not ahead returns at once.
sleep_until(clock, deadline) ==
    IF float32(clock) < deadline THEN clock + (deadline - float32(clock)) ELSE clock

\* how long an iteration runs before it reaches sleep_until: well under a
\* tick, or MaxWork ticks
Works == {0, MaxWork}

\* the end of an iteration (main.cpp 531-533), reached also when nothing was
\* drawn
Sleep ==
    /\ pc = "sleep" \/ (pc = "redraw" /\ ~needs_redraw /\ ~hud)
    /\ \E w \in Works :
          /\ work' = w
          /\ elapsed' = sleep_until(now + w, frame_deadline(now)) - now
    /\ pc' = "loop"
    /\ UNCHANGED <<argv, i, a, exit_code, obj, curses, stdscr, g_hud_pair, buf, cam, hud, rotate,
                   needs_redraw, dt, ch, frame, renders, win, screen, calls, t0, now, file_materials, palette>>

EndWin_skipped ==
    /\ pc = "endwin"
    /\ Terminate(0)
    /\ UNCHANGED <<argv, i, a, obj, curses, stdscr, g_hud_pair, buf, cam, hud, rotate,
                   needs_redraw, elapsed, dt, ch, frame, renders, win, screen, calls, t0, now, work, file_materials, palette>>

\* endwin(); return 0 (main.cpp 536-537)
EndWin ==
    /\ pc = "endwin"
    /\ curses' = "ended"
    /\ Terminate(0)
    /\ UNCHANGED <<argv, i, a, obj, stdscr, g_hud_pair, buf, cam, hud, rotate,
                   needs_redraw, elapsed, dt, ch, frame, renders, win, screen, calls, t0, now, work, file_materials, palette>>

NextLoop ==
    \/ LoopTop
    \/ GetKey
    \/ ClearBuffer
    \/ Render
    \/ EmitBuffer
    \/ DrawHud
    \/ Refresh
    \/ UpdateHud
    \/ Sleep
    \/ EndWin

Next == NextStart \/ NextLoop

Spec == Init /\ [][Next]_vars

\* The loop on a machine that has been up for a while: the steady clock
\* reads the time since boot, here 0, 2^24 and 2^25 ticks (0, 3.3 and 6.5
\* days).
Uptimes == {0, 2^24, 2^25}
PacingCommandLines == {<<"m.obj">>, <<"-az", "m.obj">>}

InitPacing == \E av \in PacingCommandLines, up \in Uptimes : Start(av, up, 0)

SpecPacing == InitPacing /\ [][Next]_vars

\* The program with colours on, for input files of few materials, of as
\* many as the terminal has colours, and of more than it has pairs.
MaterialCounts == {0, 1, COLORS - 1, COLORS, COLOR_PAIRS - 2, COLOR_PAIRS + 6}
ColorCommandLines ==
    {<<"-c", "m.obj">>, <<"-c", "light", "m.obj">>, <<"-c", "transparent", "m.obj">>}

InitColored == \E av \in ColorCommandLines, n \in MaterialCounts : Start(av, 0, n)

SpecColors == InitColored /\ [][Next]_vars

----------------------------------------------------------------------------
(* The camera on its own: a camera built by one of the constructors, or     *)
(* built and then given its angles by field assignment as main.cpp does,    *)
(* and then driven through its public mutators with arbitrary arguments.    *)

MaxCalls == 2

\* degree arguments (tenths of a degree) and zoom steps (tenths)
Degrees == {-1200, -50, 0, 50, 900, 1200, 4000}
Steps == {-60, -1, 0, 1, 60}
\* constructor arguments: radians (units of pi/360) and zoom (tenths)
Radians == {-900, -180, 0, 100, 180, 360, 500}
Zooms == {-5, 1, 10, 50, 70}

\* everything of the host program that a bare camera does not have
NoProgram ==
    /\ argv = <<>> /\ i = 0 /\ a = DefaultArgs /\ exit_code = -1
    /\ obj = NoObject /\ curses = "off" /\ stdscr = <<0, 0>> /\ g_hud_pair = 0
    /\ buf = NoBuffer /\ hud = FALSE /\ rotate = FALSE /\ needs_redraw = FALSE
    /\ elapsed = 0 /\ dt = 0 /\ ch = "ERR" /\ frame = 0 /\ renders = 0
    /\ win = NoWindow /\ screen = NoWindow
    /\ t0 = 0 /\ now = 0 /\ work = 0 /\ file_materials = 0 /\ palette = NoPalette

program_vars == <<argv, i, a, exit_code, obj, curses, stdscr, g_hud_pair, buf,
                  hud, rotate, needs_redraw, elapsed, dt, ch, frame, renders, win, screen,
                  t0, now, work, file_materials, palette>>

\* a camera as a constructor leaves it
Constructed ==
    {Camera0} \cup {Camera1(z) : z \in Zooms}
              \cup {Camera3(az, al, z) : az \in Radians, al \in Radians, z \in Zooms}

InitCamera ==
    /\ NoProgram
    /\ calls = <<>>
    /\ \/ /\ pc = "camera"
          /\ cam \in Constructed
       \/ /\ pc = "camera_fields"      \* cam.azimuth = ... written directly
          /\ \E c \in Constructed, az \in Radians : cam = [c EXCEPT !.azimuth = az]

Call(op, x) ==
    /\ pc \in {"camera", "camera_fields"}
    /\ Len(calls) < MaxCalls
    /\ cam' = Mutate(op, cam, x)
    /\ calls' = Append(calls, [op |-> op, arg |-> x, pre |-> cam])
    /\ UNCHANGED <<pc, program_vars>>

CallRotateLeft  == \E d \in Degrees : Call("rotate_left", d)
CallRotateRight == \E d \in Degrees : Call("rotate_right", d)
CallRotateUp    == \E d \in Degrees : Call("rotate_up", d)
CallRotateDown  == \E d \in Degrees : Call("rotate_down", d)
CallZoomIn      == \E s \in Steps : Call("zoom_in", s)
CallZoomOut     == \E s \in Steps : Call("zoom_out", s)

NextCamera ==
    \/ CallRotateLeft
    \/ CallRotateRight
    \/ CallRotateUp
    \/ CallRotateDown
    \/ CallZoomIn
    \/ CallZoomOut

SpecCamera == InitCamera /\ [][NextCamera]_vars

----------------------------------------------------------------------------
(* Camera properties *)

AltitudeInRange(c) == -PI \div 2 <= c.altitude /\ c.altitude <= PI \div 2
ZoomInRange(c) == ZOOM_MIN <= c.zoom /\ c.zoom <= ZOOM_MAX
AzimuthNormalized(c) == -PI < c.azimuth /\ c.azimuth <= PI

LastCall == calls[Len(calls)]
\* the camera as the n-th call left it
Post(n) == IF n = Len(calls) THEN cam ELSE calls[n + 1].pre
IsAltitudeCall(k) == k.op \in {"rotate_up", "rotate_down"}
\* the altitude a rotate_up/rotate_down call aims at, before any clamping:
\* up raises the altitude, down lowers it
Unclamped(k) ==
    IF k.op = "rotate_up" THEN k.pre.altitude + deg2rad(k.arg)
                          ELSE k.pre.altitude - deg2rad(k.arg)

\* C1: a camera built by a constructor and then moved by rotate_up and
\* rotate_down calls only, with any arguments, has its altitude in
\* [-pi/2, pi/2].
C1_AltitudeClamped ==
    (pc = "camera" /\ \A n \in 1..Len(calls) : IsAltitudeCall(calls[n]))
        => AltitudeInRange(cam)

\* C2: after zoom_in(step) or zoom_out(step) on a camera whose zoom was in
\* [ZOOM_MIN, ZOOM_MAX], for a step of any size and sign, the zoom is in
\* [ZOOM_MIN, ZOOM_MAX].
C2_ZoomClamped ==
    (calls # <<>> /\ LastCall.op \in {"zoom_in", "zoom_out"} /\ ZoomInRange(LastCall.pre))
        => ZoomInRange(cam)

\* C3: a rotate_up or rotate_down call that would carry an in-range altitude
\* beyond +90 or -90 degrees stores exactly the boundary it crossed, and a
\* further call in the same direction from that pole leaves it there.
C3_AltitudeStopsAtPole ==
    (calls # <<>> /\ IsAltitudeCall(LastCall) /\ AltitudeInRange(LastCall.pre)) =>
        /\ Unclamped(LastCall) > PI \div 2 => cam.altitude = PI \div 2
        /\ Unclamped(LastCall) < -PI \div 2 => cam.altitude = -PI \div 2

\* C4: rotate_left(d) followed by rotate_right(d) leaves the azimuth at the
\* normalized form of the azimuth it started from, whatever that azimuth and
\* d were, and every rotate_left or rotate_right call leaves the azimuth in
\* the canonical range (-pi, pi].
C4_LeftRightRestores ==
    /\ (calls # <<>> /\ LastCall.op \in {"rotate_left", "rotate_right"})
            => AzimuthNormalized(cam)
    /\ \A n \in 1..(Len(calls) - 1) :
          (/\ calls[n].op = "rotate_left"
           /\ calls[n + 1].op = "rotate_right"
           /\ calls[n].arg = calls[n + 1].arg)
              => Post(n + 1).azimuth = rad_norm(calls[n].pre.azimuth)

\* C4 happens: a left turn and the same right turn, by an angle that is not
\* zero, from an azimuth outside the canonical range, the left turn wrapping
C4_Witness ==
    /\ Len(calls) = 2
    /\ calls[1].op = "rotate_left" /\ calls[2].op = "rotate_right"
    /\ calls[1].arg = calls[2].arg /\ calls[1].arg # 0
    /\ ~AzimuthNormalized(calls[1].pre)
    /\ calls[2].pre.azimuth # calls[1].pre.azimuth + deg2rad(calls[1].arg)
    /\ cam.azimuth = rad_norm(calls[1].pre.azimuth)

----------------------------------------------------------------------------
(* Startup properties *)

\* the command line read by the grammar print_help documents: what each word
\* of av, from position k on, is
ValueOptions == {"-z", "--zoom", "--altitude", "--azimuth"}
SpeedOptions == {"-az", "-al"}
HelpOptions == {"-h", "--help", "-v", "--version"}
PlainOptions == {"-l", "--light", "--flip", "--invert-x", "--invert-y", "--invert-z"}
Themes == {"dark", "light", "transparent"}

RECURSIVE Roles(_, _)
Roles(av, k) ==
    IF k > Len(av) THEN <<>>
    ELSE IF av[k] \in ValueOptions
         THEN IF k = Len(av) THEN <<"option">>
              ELSE <<"option", "value">> \o Roles(av, k + 2)
    ELSE IF av[k] \in SpeedOptions /\ k < Len(av) /\ av[k + 1] \in Numbers
                                   /\ ~StartsWithDash(av[k + 1])
         THEN <<"option", "value">> \o Roles(av, k + 2)
    ELSE IF av[k] \in {"-c", "--color"} /\ k < Len(av) /\ av[k + 1] \in Themes
         THEN <<"option", "value">> \o Roles(av, k + 2)
    ELSE IF av[k] \in SpeedOptions \cup HelpOptions \cup PlainOptions \cup {"-c", "--color"}
         THEN <<"option">> \o Roles(av, k + 1)
    ELSE IF StartsWithDash(av[k])
         THEN <<"unknown">> \o Roles(av, k + 1)
    ELSE <<"file">> \o Roles(av, k + 1)

Role(k) == Roles(argv, 1)[k]
Places == 1..Len(argv)

NoInputFile == \A k \in Places : Role(k) # "file"
UnknownFlagAt(k) == Role(k) = "unknown"
\* a word that is no number where --zoom, --azimuth or --altitude wants one
MalformedValueAt(k) ==
    k > 1 /\ Role(k) = "value" /\ argv[k - 1] \in ValueOptions /\ argv[k] \notin Numbers
\* a word that is neither a number nor an option right after -az or -al
MalformedSpeedAt(k) ==
    k > 1 /\ Role(k - 1) = "option" /\ argv[k - 1] \in SpeedOptions
          /\ ~StartsWithDash(argv[k]) /\ argv[k] \notin Numbers
HelpAt(k) == Role(k) = "option" /\ argv[k] \in HelpOptions

\* the process exits with status 1, or is still on its way there, and
\* init_ncurses has not been called
FailsBeforeCurses ==
    /\ curses = "off"
    /\ pc \in {"parse_args", "load", "exit"}
    /\ pc = "exit" => exit_code = 1

FirstEntry == pc = "loop" /\ frame = 0

\* C5: when the render loop is first entered, the camera made from the
\* command line has its zoom in [ZOOM_MIN, ZOOM_MAX], its altitude in
\* [-pi/2, pi/2] and its azimuth in (-pi, pi].
C5_InitialViewClamped ==
    FirstEntry => ZoomInRange(cam) /\ AltitudeInRange(cam) /\ AzimuthNormalized(cam)

\* C6, as claimed: a command line with no input file, with an unknown flag,
\* or with a word that is no number given to --zoom, --azimuth, --altitude,
\* -az or -al ends in exit status 1 without init_ncurses being called.
C6_Original ==
    (\/ NoInputFile
     \/ \E k \in Places : UnknownFlagAt(k) \/ MalformedValueAt(k) \/ MalformedSpeedAt(k))
        => FailsBeforeCurses

\* C6, amended: a command line with no input file and no help or version
\* flag, or with an unknown flag or a word that is no number given to --zoom,
\* --azimuth or --altitude and no help or version flag before it, ends in
\* exit status 1 without init_ncurses being called.
C6_BadCommandLineFails ==
    (\/ NoInputFile /\ \A k \in Places : ~HelpAt(k)
     \/ \E k \in Places : /\ UnknownFlagAt(k) \/ MalformedValueAt(k)
                          /\ \A j \in 1..(k - 1) : ~HelpAt(j))
        => FailsBeforeCurses

\* C6 happens: the process has exited with status 1 at a malformed value
C6_Witness ==
    /\ pc = "exit" /\ exit_code = 1 /\ curses = "off"
    /\ \E k \in Places : MalformedValueAt(k) /\ i = k - 1
                         /\ \A j \in 1..(k - 1) : ~HelpAt(j)

\* C7: once Object::load has failed, the process has ended with status 1:
\* no transform was applied, terminal mode was not entered, no buffer was
\* made and no iteration of the render loop (clear, render, emit) ran.
C7_LoadFailureAborts ==
    obj.load = "failed" =>
        /\ pc = "exit" /\ exit_code = 1
        /\ obj.transforms = <<>>
        /\ curses = "off"
        /\ buf = NoBuffer /\ frame = 0 /\ renders = 0
        /\ win = NoWindow /\ screen = NoWindow

C7_Witness == obj.load = "failed" /\ pc = "exit" /\ a.input_file # ""

----------------------------------------------------------------------------
(* Render loop properties *)

\* the window shows the picture the buffer holds
Emitted(w, b) ==
    w.image = <<[cam |-> b.image, w |-> b.w, h |-> b.h, state |-> b.state]>>
BufferFits == buf.w = stdscr[2] /\ buf.h = stdscr[1] /\ buf.lx = logical_x(stdscr[1], stdscr[2])

\* C8: Renderer::render runs only on a buffer cleared since the previous
\* render; nothing is written to the window or the terminal between a clear
\* and its render, only the rendered buffer is emitted; a buffer is cleared
\* again only after its picture was emitted; and when a key is read, the
\* buffer of every earlier iteration has been rendered, emitted and refreshed.
C8_ClearRenderEmit ==
    /\ [](pc = "getch" =>
            IF frame = 1 THEN buf.state = "fresh" /\ renders = 0
            ELSE buf.state = "rendered" /\ Emitted(win, buf) /\ Emitted(screen, buf))
    /\ [][/\ renders' # renders => buf.state = "cleared" /\ buf'.state = "rendered"
          /\ (win' # win \/ screen' # screen) => buf.state = "rendered" /\ buf' = buf
          /\ win'.image # win.image => Emitted(win', buf)
          /\ (buf'.state = "cleared" /\ buf.state = "rendered") => Emitted(screen, buf)
         ]_vars

\* C8 happens: a second frame has been cleared, rendered, emitted and refreshed
C8_Witness ==
    pc = "sleep" /\ renders = 2 /\ frame = 2 /\ buf.state = "rendered" /\ Emitted(screen, buf)

\* C9: after KEY_RESIZE is read the buffer is a new one with the terminal's
\* new columns and rows and the x-extent computed from them, a redraw is
\* pending, and by the end of that iteration the new buffer has been cleared,
\* rendered and emitted; every Renderer::render call finds a cleared buffer
\* of the terminal's current size.
C9_ResizeRebuildsBuffer ==
    /\ pc = "render" => BufferFits /\ buf.state = "cleared"
    /\ (ch = "KEY_RESIZE" /\ pc = "redraw") =>
            buf = NewBuffer(stdscr) /\ BufferFits /\ needs_redraw
    /\ (ch = "KEY_RESIZE" /\ pc \in {"sleep", "loop"}) =>
            BufferFits /\ buf.state = "rendered" /\ Emitted(screen, buf)

\* C9 happens: a render is about to run on a buffer rebuilt for a new size,
\* the window still showing the frame of the old size
C9_Witness ==
    /\ pc = "render" /\ ch = "KEY_RESIZE" /\ BufferFits
    /\ win.image # <<>> /\ win.image[1].w # buf.w /\ win.image[1].h # buf.h

AtMostOnce(q) == \A j, k \in 1..Len(q) : j # k => q[j] # q[k]

\* C10: the Object changes only at startup (load and the transforms),
\* before the loop is entered and before the first Renderer::render call;
\* no transform is applied twice; in the loop the Object stays as the
\* startup left it.
C10_ObjectFrozenAfterStartup ==
    /\ [](AtMostOnce(obj.transforms))
    /\ [](pc \in {"loop", "getch", "redraw", "render", "printw", "hud", "refresh",
                  "sleep", "endwin"} => obj.load = "ok" /\ obj.transforms = transforms(a))
    /\ [][obj' # obj => pc \in {"load", "transform"} /\ frame = 0 /\ renders = 0]_vars

\* C10 happens: frames have been rendered from an object that was flipped
\* or inverted at startup
C10_Witness ==
    renders >= 2 /\ pc = "sleep" /\ Len(obj.transforms) > 2 /\ obj.transforms = transforms(a)

----------------------------------------------------------------------------
(* The render loop: redraw, quit, pacing, animation *)

LoopPcs == {"loop", "getch", "redraw", "render", "printw", "hud", "refresh", "sleep"}

\* an iteration in which nothing changed, seen after getch: no key was read,
\* the animation is off and no redraw is pending
Idle == pc = "redraw" /\ ch = "ERR" /\ ~rotate /\ ~needs_redraw

\* C11: an iteration in which nothing changed (no key, animation off, no
\* redraw pending) runs no buffer clear, no Renderer::render and no
\* emission and goes straight to the end of the iteration; with the HUD on
\* the HUD is drawn again from the camera and refreshed, with the HUD off
\* the window and the terminal are left alone.  After the first iteration
\* has consumed the initial redraw, no redraw is pending unless the
\* iteration itself asked for one.
C11_RedrawOnlyIfDirty ==
    /\ [](pc = "redraw" /\ ch = "ERR" /\ ~rotate /\ frame > 1 => ~needs_redraw)
    /\ [][Idle =>
            /\ renders' = renders /\ buf' = buf
            /\ win'.image = win.image /\ screen'.image = screen.image
            /\ IF hud
               THEN pc' = "sleep" /\ win'.hud = <<render_hud(cam, fps(dt))>> /\ screen' = win'
               ELSE pc' = "loop" /\ win' = win /\ screen' = screen]_vars

\* C11 happens: the third iteration read no key, rendered nothing (two
\* renders in three iterations) and refreshed the HUD
C11_Witness ==
    /\ pc = "sleep" /\ frame = 3 /\ renders = 2 /\ ch = "ERR" /\ ~rotate /\ hud
    /\ screen.hud = <<render_hud(cam, fps(dt))>> /\ screen.image = win.image

QuitKeys == {"q", "Q"}

\* C12: the loop is left only from getch, and exactly when getch returned
\* 'q' or 'Q': every other key, a resize and the animation step keep the
\* program in the loop.  After the quit key nothing is cleared, rendered,
\* emitted or refreshed and no new iteration starts; endwin runs before the
\* process returns, and the process returns 0.
C12_QuitEndsLoop ==
    /\ [][pc = "getch" => ((pc' = "endwin") <=> (ch' \in QuitKeys))]_vars
    /\ [][(pc \in LoopPcs /\ pc' \notin LoopPcs) => (pc = "getch" /\ ch' \in QuitKeys)]_vars
    /\ [][(pc \in {"endwin", "exit"}) =>
            (buf' = buf /\ renders' = renders /\ win' = win /\ screen' = screen
                /\ frame' = frame /\ ch' = ch)]_vars
    /\ [](pc \in LoopPcs \cup {"endwin"} => curses = "on" /\ exit_code = -1)
    /\ [](pc = "exit" /\ frame > 0 => curses = "ended" /\ exit_code = 0 /\ ch \in QuitKeys)

\* C12 happens: 'Q' was read in the third iteration, after two rendered
\* frames, and the process has returned
C12_Witness ==
    /\ pc = "exit" /\ exit_code = 0 /\ curses = "ended" /\ ch = "Q"
    /\ frame = 3 /\ renders = 2 /\ screen = win

\* C13: two consecutive iterations start at least FRAME_DURATION apart
\* (dt, the time between the starts, is never below FRAME_DURATION after
\* the first iteration), and an iteration that ran longer than
\* FRAME_DURATION is followed at once, without sleep and without a
\* shortened or skipped frame: the next dt is the time that iteration took.
C13_FramePacing ==
    /\ pc = "loop" /\ frame >= 1 =>
          /\ elapsed >= FRAME_DURATION
          /\ work > FRAME_DURATION => elapsed = work
    /\ pc # "loop" /\ frame >= 2 =>
          /\ dt >= FRAME_DURATION
          /\ work > FRAME_DURATION => dt = work

\* the angle, in radians, that a speed in degrees per second covers in the
\* given time
Swept(speed, ticks) == deg2rad((speed * ticks) \div 60)

\* C14: while the animation is active the camera stands where the initial
\* view, turned by speed * (time since the loop was entered), would stand:
\* azimuth turned left and altitude turned down by that one angle, however
\* many iterations the time was cut into and however long each one took
\* (the angles compared after the normalisation the mutators apply).
C14_AnimationFrameRateIndependent ==
    pc \in LoopPcs \cup {"endwin", "exit"} /\ frame >= 1 /\ rotate =>
        LET view == InitialView(a)
            T    == now - t0
        IN  /\ cam.zoom = view.zoom
            /\ cam.azimuth =
                  IF a.animate_azimuth
                  THEN rad_norm(view.azimuth + Swept(a.speed_azimuth, T))
                  ELSE view.azimuth
            /\ cam.altitude =
                  IF a.animate_altitude
                  THEN rad_norm(view.altitude - Swept(a.speed_altitude, T))
                  ELSE view.altitude

\* C14 happens: three iterations of 0, 1 and MaxWork ticks (in some order
\* after the first) have turned both angles of an animated camera
C14_Witness ==
    /\ pc = "sleep" /\ frame = 3 /\ rotate /\ a.animate_azimuth /\ a.animate_altitude
    /\ now - t0 = FRAME_DURATION + MaxWork /\ dt = MaxWork
    /\ cam.azimuth # InitialView(a).azimuth /\ cam.altitude # InitialView(a).altitude

----------------------------------------------------------------------------
(* Camera: up against down *)

\* the keys print_help lists for "Rotate up" and "Rotate down", with the
\* upper-case letters handle_control accepts as well
UpKeys == {"KEY_UP", "k", "K", "w", "W"}
DownKeys == {"KEY_DOWN", "j", "J", "s", "S"}

\* an altitude strictly inside the clamp range, a step of d degrees away
\* from both ends
HasRoom(c, d) ==
    -(PI \div 2) < c.altitude - deg2rad(d) /\ c.altitude + deg2rad(d) < PI \div 2

\* C15: from an altitude with room for the step, rotate_up(d) followed by
\* rotate_down(d), d > 0, brings the altitude back where it was; and where
\* rotate_up(ANGLE_STEP) has moved a camera that had room, that is what
\* every up key of handle_control does to that camera and what no down key
\* does to it.
C15_UpDownOpposite ==
    /\ \A n \in 1..(Len(calls) - 1) :
          /\ calls[n].op = "rotate_up" /\ calls[n + 1].op = "rotate_down"
          /\ calls[n].arg > 0 /\ calls[n + 1].arg = calls[n].arg
          /\ HasRoom(calls[n].pre, calls[n].arg)
          => Post(n + 1).altitude = calls[n].pre.altitude
    /\ \A n \in 1..Len(calls) :
          /\ calls[n].op = "rotate_up" /\ calls[n].arg = ANGLE_STEP
          /\ HasRoom(calls[n].pre, ANGLE_STEP)
          => \A up \in UpKeys, down \in DownKeys :
                /\ handle_control(up, calls[n].pre) = Post(n)
                /\ handle_control(down, calls[n].pre) # Post(n)

----------------------------------------------------------------------------
(* The render loop: the animation flag, the frame on the terminal, zoom *)

\* the keys for which handle_control calls a rotate or zoom mutator
MovementKeys ==
    {"KEY_LEFT", "h", "H", "a", "A", "KEY_RIGHT", "l", "L", "d", "D"}
        \cup UpKeys \cup DownKeys \cup {"+", "=", "i", "I", "-", "o", "O"}

\* C16: the animation flag goes off only in an iteration whose key makes
\* handle_control call a rotate or zoom mutator; no key, Tab and a resize
\* leave it on; once off it stays off and the top of the loop no longer
\* turns the camera.
C16_AnimationStopsOnMovement ==
    /\ [][(rotate /\ ~rotate') => (pc = "getch" /\ ch' \in MovementKeys)]_vars
    /\ [][(rotate /\ pc = "getch" /\ ch' \in {"ERR", "\t", "KEY_RESIZE"}) => rotate']_vars
    /\ [][(~rotate /\ pc \in LoopPcs) => (~rotate' /\ (pc = "loop" => cam' = cam))]_vars

\* the frame the terminal would show for this camera, buffer size and HUD
\* state: the object rendered from the camera into a buffer of the
\* terminal's size, and over it the HUD when it is on
CurrentFrame ==
    [image |-> <<[cam |-> <<cam>>, w |-> stdscr[2], h |-> stdscr[1], state |-> "rendered"]>>,
     hud   |-> IF hud THEN <<render_hud(cam, fps(dt))>> ELSE <<>>]

\* C17: when an iteration ends (the loop is back at its top after the
\* sleep) the terminal shows the frame of the current camera, the current
\* terminal size and the current HUD state, from a buffer of that size; and
\* an iteration in which the animation turned the camera or a key other
\* than the quit key was read (movement, Tab, resize) redraws in full.
C17_NoStaleFrame ==
    /\ pc = "loop" /\ frame >= 1 => screen = CurrentFrame /\ BufferFits
    /\ pc = "redraw" /\ (rotate \/ ch # "ERR") => needs_redraw

\* C17 happens: after Tab, a movement key and a resize, each in its own
\* iteration, the third iteration has ended with the HUD on, the camera
\* moved and the frame drawn at the new size
C17_Witness ==
    /\ pc = "loop" /\ frame = 3 /\ renders = 3 /\ hud /\ ch = "KEY_RESIZE"
    /\ cam # InitialView(a) /\ ~rotate
    /\ screen = CurrentFrame /\ screen.hud # <<>>

\* C18: whatever --zoom the command line gave and whatever keys were read,
\* Renderer::render is called with a camera whose zoom is in
\* [ZOOM_MIN, ZOOM_MAX], and so is the zoom of every picture in the buffer.
C18_RenderZoomInRange ==
    /\ pc = "render" => ZoomInRange(cam)
    /\ \A k \in 1..Len(buf.image) : ZoomInRange(buf.image[k])

\* C18 happens: the command line asked for a zoom below ZOOM_MIN, the
\* second iteration read the zoom-out key and is about to render at ZOOM_MIN
C18_Witness ==
    /\ pc = "render" /\ frame = 2 /\ ch = "-"
    /\ a.zoom < ZOOM_MIN /\ cam.zoom = ZOOM_MIN

----------------------------------------------------------------------------
(* Colours *)

PairIndex(calls_) == {p[1] : p \in calls_}

\* C19: curses is given colours and pairs only by init_colors at startup,
\* before the first iteration; every material pair is in
\* 1..COLOR_PAIRS-2; the HUD pair is one past the last material pair,
\* below COLOR_PAIRS and no material pair; every colour passed to
\* init_color is a colour of the terminal (0..COLORS-1); and the pair the
\* HUD is drawn with and the pair of the background were registered.
C19_ColorPairsWithinLimits ==
    /\ [][palette' # palette => (pc = "init_colors" /\ palette = NoPalette /\ frame = 0)]_vars
    /\ [](PairIndex(palette.pairs) \subseteq 1..(COLOR_PAIRS - 2))
    /\ [](g_hud_pair # 0 =>
            /\ g_hud_pair = Cardinality(PairIndex(palette.pairs)) + 1
            /\ g_hud_pair < COLOR_PAIRS
            /\ g_hud_pair \notin PairIndex(palette.pairs))
    /\ [](palette.colors \subseteq 0..(COLORS - 1))
    /\ [](\A k \in 1..Len(win.hud) :
            win.hud[k].pair # 0 => win.hud[k].pair \in PairIndex(palette.hud))
    /\ [](palette.bkgd # 0 => palette.bkgd \in PairIndex(palette.hud))

====
